---- MODULE Spec2Model ----
(***************************************************************************)
(* State-machine model of the useSpeechRecognition hook                    *)
(* (src/src/hooks/useSpeechRecognition.ts).                                *)
(*                                                                         *)
(* The hook's React state and refs are the program variables.  The browser *)
(* recognizer instances are the environment: each instance, once start()   *)
(* has been called on it, delivers start / result / error / end events     *)
(* asynchronously, and events of an instance on which stop() or abort()    *)
(* has been called may still be in flight and are delivered afterwards.    *)
(* Timers of one delay fire in the order they were set; timers of          *)
(* different delays are not ordered against each other or against events.  *)
(*                                                                         *)
(* Text is a sequence of tokens: 0 is a blank, r > 0 is a word recognized  *)
(* by recognizer instance r (so the origin of every piece of text is       *)
(* visible in the transcript).                                             *)
(***************************************************************************)
EXTENDS Naturals, Sequences, FiniteSets

\* ---------------------------------------------------------------- bounds
\* number of recognizer instances that exist at a time (constructed, not yet ended)
MaxRec == 2
\* length of the final text accumulated in finalTranscriptRef
MaxFinals == 1
\* the same, where one recognizer instance exists at a time (SoloSpec)
MaxSoloFinals == 2
\* number of pending timers of one delay
MaxTimers == 1

VARIABLES
    isListening,        \* useState(false)                       line 34
    transcript,         \* useState('')                          line 35
    isSupported,        \* useState(false)                       line 36
    recognitionRef,     \* useRef<SpeechRecognition|null>(null)  line 37
    onSpeechEndRef,     \* useRef<callback|null>(null)           line 38
    finalTranscriptRef, \* useRef('')                            line 39
    isVoiceModeRef,     \* useRef(false)                         line 40
    shouldRestartRef,   \* useRef(false)                         line 41
    mounted,            \* the mount effect (lines 43-49) has run
    hasSpeechRecognition, \* window.SpeechRecognition || window.webkitSpeechRecognition
    rec,                \* the recognizer instances that exist, by identity
    retryTimers,        \* pending 1000 ms timers set by onerror, oldest first; history: cb is
                        \* onSpeechEndRef.current when the timer was set, error the code
                        \* of the error event that set it, told whether
                        \* stopListening() or startListening() without a callback was
                        \* called since
    restartTimers,      \* pending 500 ms timers set by restartListening (their callback)
    speechEndTimers,    \* pending 100 ms timers set by onresult, oldest first: the
                        \* instance whose handler set the timer and the fullText of
                        \* its closure
    sessionFinal,       \* history: final text delivered since the last startListening / resetTranscript
    lastCall,           \* history: which of stopListening ("stop") and startListening was
                        \* called last, and for startListening who called it ("ui",
                        \* "retry", "restart")
    speechEndCalled,    \* history: for each instance that exists or has a callback
                        \* timer pending, whether one of its timers has invoked the
                        \* speech-end callback
    speechEndCall       \* the invocation of the speech-end callback made by the step
                        \* that led here (the callback invoked and its argument)

vars == <<isListening, transcript, isSupported, recognitionRef, onSpeechEndRef,
          finalTranscriptRef, isVoiceModeRef, shouldRestartRef, mounted,
          hasSpeechRecognition, rec, retryTimers, restartTimers,
          speechEndTimers, sessionFinal, lastCall, speechEndCalled, speechEndCall>>

hookVars == <<isListening, transcript, isSupported, recognitionRef, onSpeechEndRef,
              finalTranscriptRef, isVoiceModeRef, shouldRestartRef>>

\* ------------------------------------------------------------- constants
null == 0
RecIds == 1..MaxRec
\* the callbacks a caller may pass as onSpeechEnd
Callbacks == {1, 2}
Blank == 0
EmptyText == <<>>

\* the transcript of one final result of instance r: empty, a blank, or a word;
\* an interim result carries a word
FinalItemsOf(r) == [isFinal : {TRUE}, transcript : {EmptyText, <<Blank>>, <<r>>}]
InterimItemsOf(r) == [isFinal : {FALSE}, transcript : {<<r>>}]
Items(r) == FinalItemsOf(r) \cup InterimItemsOf(r)
\* the results of r an event repeats from earlier events (before event.resultIndex)
EarlierItems(r) == {<<>>, <<[isFinal |-> TRUE, transcript |-> <<r>>]>>}
\* the results an event adds or changes (from event.resultIndex on): one, or a
\* final and an interim one in either order
NewItems(r) == {<<i>> : i \in Items(r)}
               \cup {<<i, j>> : i \in FinalItemsOf(r), j \in InterimItemsOf(r)}
               \cup {<<i, j>> : i \in InterimItemsOf(r), j \in FinalItemsOf(r)}

\* an instance: its place in its life ("none": no such instance; "starting":
\* start() was called; "started": its start event was delivered), whether its
\* error event was delivered, and whether abort() / stop() was called on it
\* before that
NoRec == [status |-> "none", errored |-> FALSE, aborted |-> FALSE, stopped |-> FALSE]

\* no invocation of the speech-end callback
NotCalled == [cb |-> null, text |-> EmptyText]


\* ---------------------------------------------------------------- strings
\* String.prototype.trim: drop leading and trailing blanks
RECURSIVE TrimLeft(_)
TrimLeft(s) == IF s # <<>> /\ Head(s) = Blank THEN TrimLeft(Tail(s)) ELSE s
RECURSIVE TrimRight(_)
TrimRight(s) == IF s # <<>> /\ s[Len(s)] = Blank THEN TrimRight(SubSeq(s, 1, Len(s) - 1)) ELSE s
trim(s) == TrimRight(TrimLeft(s))

\* ------------------------------------------------------------------- Init
Init ==
    /\ isListening = FALSE
    /\ transcript = EmptyText
    /\ isSupported = FALSE
    /\ recognitionRef = null
    /\ onSpeechEndRef = null
    /\ finalTranscriptRef = EmptyText
    /\ isVoiceModeRef = FALSE
    /\ shouldRestartRef = FALSE
    /\ mounted = FALSE
    /\ hasSpeechRecognition \in BOOLEAN
    /\ rec = [r \in RecIds |-> NoRec]
    /\ retryTimers = <<>>
    /\ restartTimers = <<>>
    /\ speechEndTimers = <<>>
    /\ sessionFinal = EmptyText
    /\ lastCall = "none"
    /\ speechEndCalled = [r \in RecIds |-> FALSE]
    /\ speechEndCall = NotCalled

\* whether a callback timer set by the handler of instance r is among timers
HasTimer(r, timers) == \E i \in 1..Len(timers) : timers[i].rec = r

\* history: the pending retry timers once the UI has said not to retry
Told(timers) == [i \in 1..Len(timers) |-> [timers[i] EXCEPT !.told = TRUE]]

\* ------------------------------------------------------- mount effect
\* mutant: the effect sets the flag without looking at the platform
CapabilityEffectUnconditional ==
    /\ ~mounted
    /\ mounted' = TRUE
    /\ isSupported' = TRUE
    /\ speechEndCall' = NotCalled
    /\ UNCHANGED <<isListening, transcript, recognitionRef, onSpeechEndRef,
                   finalTranscriptRef, isVoiceModeRef, shouldRestartRef,
                   hasSpeechRecognition, rec, retryTimers, restartTimers,
                   speechEndTimers, sessionFinal, lastCall, speechEndCalled>>

\* useEffect(() => { if (SpeechRecognition) setIsSupported(true) }, [])
CapabilityEffect ==
    /\ ~mounted
    /\ mounted' = TRUE
    /\ isSupported' = IF hasSpeechRecognition THEN TRUE ELSE isSupported
    /\ speechEndCall' = NotCalled
    /\ UNCHANGED <<isListening, transcript, recognitionRef, onSpeechEndRef,
                   finalTranscriptRef, isVoiceModeRef, shouldRestartRef,
                   hasSpeechRecognition, rec, retryTimers, restartTimers,
                   speechEndTimers, sessionFinal, lastCall, speechEndCalled>>

\* ------------------------------------------------------- startListening
\* identities not in use: of no instance that exists and of no pending callback timer
FreeIds == {r \in RecIds : rec[r].status = "none" /\ ~HasTimer(r, speechEndTimers)}
\* the identity of the instance `new SpeechRecognition()` returns (line 69)
NewId == CHOOSE r \in FreeIds : \A q \in FreeIds : r <= q

\* recognitionRef.current.abort() when a recognizer is referenced (lines 58-60)
AbortExisting(recs) ==
    IF recognitionRef # null
    THEN [recs EXCEPT ![recognitionRef].aborted = TRUE]
    ELSE recs

\* mutant: startListening does not look at the supported flag
UnsupportedNoConstructor == ~hasSpeechRecognition

\* the guards of startListening (lines 52 and 55)
Unsupported == ~isSupported \/ ~hasSpeechRecognition

\* the body of startListening(onSpeechEnd); throws tells whether
\* recognition.start() throws (lines 153-159)
startListening(onSpeechEnd, throws, caller) ==
    IF Unsupported
    THEN /\ lastCall' = caller
         /\ UNCHANGED <<hookVars, rec, sessionFinal, speechEndCalled>>
    ELSE
        /\ FreeIds # {}
        /\ isVoiceModeRef' = (onSpeechEnd # null)
        /\ shouldRestartRef' = (onSpeechEnd # null)
        /\ rec' = IF throws
                  THEN AbortExisting(rec)
                  ELSE [AbortExisting(rec) EXCEPT ![NewId] = [NoRec EXCEPT !.status = "starting"]]
        /\ recognitionRef' = IF throws THEN null ELSE NewId
        /\ onSpeechEndRef' = onSpeechEnd
        /\ finalTranscriptRef' = EmptyText
        /\ isListening' = IF throws THEN FALSE ELSE isListening
        /\ sessionFinal' = EmptyText
        /\ lastCall' = caller
        /\ speechEndCalled' = IF throws THEN speechEndCalled
                              ELSE [speechEndCalled EXCEPT ![NewId] = FALSE]
        /\ UNCHANGED <<transcript, isSupported>>

\* the UI calls startListening(onSpeechEnd) or startListening()
UserStartListening ==
    \E onSpeechEnd \in Callbacks \cup {null}, throws \in BOOLEAN :
        /\ startListening(onSpeechEnd, throws, "ui")
        /\ retryTimers' = IF onSpeechEnd = null THEN Told(retryTimers) ELSE retryTimers
        /\ speechEndCall' = NotCalled
        /\ UNCHANGED <<mounted, hasSpeechRecognition, restartTimers, speechEndTimers>>

\* ------------------------------------------------------- stopListening
stopListening ==
    /\ shouldRestartRef' = FALSE
    /\ isVoiceModeRef' = FALSE
    /\ rec' = IF recognitionRef # null /\ isListening
              THEN [rec EXCEPT ![recognitionRef].stopped = TRUE]
              ELSE rec
    /\ lastCall' = "stop"
    /\ retryTimers' = Told(retryTimers)
    /\ speechEndCall' = NotCalled
    /\ UNCHANGED <<isListening, transcript, isSupported, recognitionRef, onSpeechEndRef,
                   finalTranscriptRef, mounted, hasSpeechRecognition,
                   restartTimers, speechEndTimers, sessionFinal, speechEndCalled>>

\* ------------------------------------------------------- resetTranscript
\* mutant: resetTranscript clears the transcript state only
resetTranscriptKeepsFinal ==
    /\ transcript' = EmptyText
    /\ sessionFinal' = EmptyText
    /\ speechEndCall' = NotCalled
    /\ UNCHANGED <<isListening, isSupported, recognitionRef, onSpeechEndRef,
                   finalTranscriptRef, isVoiceModeRef, shouldRestartRef, mounted,
                   hasSpeechRecognition, rec, retryTimers, restartTimers,
                   speechEndTimers, lastCall, speechEndCalled>>

resetTranscript ==
    /\ transcript' = EmptyText
    /\ finalTranscriptRef' = EmptyText
    /\ sessionFinal' = EmptyText
    /\ speechEndCall' = NotCalled
    /\ UNCHANGED <<isListening, isSupported, recognitionRef, onSpeechEndRef,
                   isVoiceModeRef, shouldRestartRef, mounted, hasSpeechRecognition,
                   rec, retryTimers, restartTimers, speechEndTimers,
                   lastCall, speechEndCalled>>

\* ------------------------------------------------------- restartListening
restartListening ==
    \E onSpeechEnd \in Callbacks :
        /\ IF ~shouldRestartRef
           THEN UNCHANGED restartTimers
           ELSE /\ Len(restartTimers) < MaxTimers
                /\ restartTimers' = Append(restartTimers, onSpeechEnd)
        /\ speechEndCall' = NotCalled
        /\ UNCHANGED <<hookVars, mounted, hasSpeechRecognition, rec,
                       retryTimers, speechEndTimers, sessionFinal, lastCall, speechEndCalled>>

\* mutant: the timer callback does not look at shouldRestartRef again
RestartTimerUnchecked ==
    /\ restartTimers # <<>>
    /\ restartTimers' = Tail(restartTimers)
    /\ \E throws \in BOOLEAN : startListening(Head(restartTimers), throws, "restart")
    /\ speechEndCall' = NotCalled
    /\ UNCHANGED <<mounted, hasSpeechRecognition, retryTimers, speechEndTimers>>

\* the 500 ms timer of restartListening fires (lines 183-187)
RestartTimer ==
    /\ restartTimers # <<>>
    /\ restartTimers' = Tail(restartTimers)
    /\ IF shouldRestartRef
       THEN \E throws \in BOOLEAN : startListening(Head(restartTimers), throws, "restart")
       ELSE UNCHANGED <<hookVars, rec, sessionFinal, lastCall, speechEndCalled>>
    /\ speechEndCall' = NotCalled
    /\ UNCHANGED <<mounted, hasSpeechRecognition, retryTimers, speechEndTimers>>

\* mutant: the timer callback calls startListening() without the callback
RetryTimerDropsCallback ==
    /\ retryTimers # <<>>
    /\ retryTimers' = Tail(retryTimers)
    /\ IF shouldRestartRef /\ onSpeechEndRef # null
       THEN \E throws \in BOOLEAN : startListening(null, throws, "retry")
       ELSE UNCHANGED <<hookVars, rec, sessionFinal, lastCall, speechEndCalled>>
    /\ speechEndCall' = NotCalled
    /\ UNCHANGED <<mounted, hasSpeechRecognition, restartTimers, speechEndTimers>>

\* the 1000 ms timer of onerror fires (lines 145-149)
RetryTimer ==
    /\ retryTimers # <<>>
    /\ retryTimers' = Tail(retryTimers)
    /\ IF shouldRestartRef /\ onSpeechEndRef # null
       THEN \E throws \in BOOLEAN : startListening(onSpeechEndRef, throws, "retry")
       ELSE UNCHANGED <<hookVars, rec, sessionFinal, lastCall, speechEndCalled>>
    /\ speechEndCall' = NotCalled
    /\ UNCHANGED <<mounted, hasSpeechRecognition, restartTimers, speechEndTimers>>

\* the 100 ms timer of onresult fires (lines 114-118): the callback stored in
\* onSpeechEndRef, if any, is invoked with the fullText of the timer's closure
SpeechEndTimer ==
    /\ speechEndTimers # <<>>
    /\ speechEndTimers' = Tail(speechEndTimers)
    /\ speechEndCall' =
           IF onSpeechEndRef # null
           THEN [cb |-> onSpeechEndRef, text |-> Head(speechEndTimers).fullText]
           ELSE NotCalled
    /\ speechEndCalled' =
           [r \in RecIds |->
               IF r = Head(speechEndTimers).rec
               THEN /\ speechEndCalled[r] \/ onSpeechEndRef # null
                    /\ rec[r].status # "none" \/ HasTimer(r, Tail(speechEndTimers))
               ELSE speechEndCalled[r]]
    /\ UNCHANGED <<hookVars, mounted, hasSpeechRecognition, rec, retryTimers,
                   restartTimers, sessionFinal, lastCall>>

\* ------------------------------------------------------- recognizer events
\* recognition.onstart (lines 79-83)
onstart(r) ==
    /\ isListening' = TRUE
    /\ transcript' = EmptyText
    /\ UNCHANGED <<isSupported, recognitionRef, onSpeechEndRef, finalTranscriptRef,
                   isVoiceModeRef, shouldRestartRef>>

\* the loop of onresult (lines 89-99) from 1-based position i; acc holds the
\* handler's locals interimTranscript and finalTranscript and finalTranscriptRef.current
RECURSIVE ResultLoop(_, _, _)
ResultLoop(results, i, acc) ==
    IF i > Len(results)
    THEN acc
    ELSE IF results[i].isFinal
         THEN ResultLoop(results, i + 1,
                  [acc EXCEPT !.finalTranscript = @ \o results[i].transcript,
                              !.ref = @ \o results[i].transcript])
         ELSE ResultLoop(results, i + 1,
                  [acc EXCEPT !.interimTranscript = @ \o results[i].transcript])

\* mutant: the loop runs over all of event.results, not from event.resultIndex
ResultLocalsFromFirst(results, resultIndex) ==
    ResultLoop(results, 1,
               [interimTranscript |-> EmptyText, finalTranscript |-> EmptyText,
                ref |-> finalTranscriptRef])

\* the handler's locals after the loop over event.results from event.resultIndex
ResultLocals(results, resultIndex) ==
    ResultLoop(results, resultIndex + 1,
               [interimTranscript |-> EmptyText, finalTranscript |-> EmptyText,
                ref |-> finalTranscriptRef])

\* mutant: the text is not trimmed before it is tested
SpeechEndedUntrimmed(locals) ==
    /\ locals.finalTranscript # EmptyText
    /\ onSpeechEndRef # null
    /\ locals.ref # EmptyText

\* whether onresult stops the recognizer and schedules the callback (lines 107-110)
SpeechEnded(locals) ==
    /\ locals.finalTranscript # EmptyText
    /\ onSpeechEndRef # null
    /\ trim(locals.ref) # EmptyText

\* the 100 ms timer onresult sets: fullText is finalTranscriptRef.current.trim()
\* (line 109)
SpeechEndEntry(r, locals) ==
    [rec |-> r, fullText |-> trim(locals.ref)]

\* recognition.onresult (lines 85-121) of instance r
onresult(r, results, resultIndex) ==
    LET locals == ResultLocals(results, resultIndex)
    IN  /\ finalTranscriptRef' = locals.ref
        /\ transcript' = locals.ref \o locals.interimTranscript
        /\ IF SpeechEnded(locals)
           THEN /\ Len(speechEndTimers) < MaxTimers
                /\ speechEndTimers' = Append(speechEndTimers, SpeechEndEntry(r, locals))
           ELSE UNCHANGED speechEndTimers
        /\ UNCHANGED <<isListening, isSupported, recognitionRef, onSpeechEndRef,
                       isVoiceModeRef, shouldRestartRef>>

\* mutant: onend leaves the listening flag as it is
onendKeepsListening(r) ==
    /\ transcript' = IF ~isVoiceModeRef /\ finalTranscriptRef # EmptyText
                     THEN finalTranscriptRef
                     ELSE transcript
    /\ recognitionRef' = null
    /\ UNCHANGED <<isListening, isSupported, onSpeechEndRef, finalTranscriptRef,
                   isVoiceModeRef, shouldRestartRef>>

\* mutant: onend keeps the final text as the transcript in voice mode too
onendAnyMode(r) ==
    /\ isListening' = FALSE
    /\ transcript' = IF finalTranscriptRef # EmptyText
                     THEN finalTranscriptRef
                     ELSE transcript
    /\ recognitionRef' = null
    /\ UNCHANGED <<isSupported, onSpeechEndRef, finalTranscriptRef, isVoiceModeRef,
                   shouldRestartRef>>

\* recognition.onend (lines 123-135)
onend(r) ==
    /\ isListening' = FALSE
    /\ transcript' = IF ~isVoiceModeRef /\ finalTranscriptRef # EmptyText
                     THEN finalTranscriptRef
                     ELSE transcript
    /\ recognitionRef' = null
    /\ UNCHANGED <<isSupported, onSpeechEndRef, finalTranscriptRef, isVoiceModeRef,
                   shouldRestartRef>>

\* history of a retry timer set now for an error event with code `error`
RetryEntry(error) == [cb |-> onSpeechEndRef, told |-> FALSE, error |-> error]

\* mutant: the retry does not look at the error code
RetryScheduledAnyCode(error) ==
    isVoiceModeRef /\ shouldRestartRef

\* whether onerror sets the 1000 ms retry timer (line 143)
RetryScheduled(error) ==
    isVoiceModeRef /\ shouldRestartRef /\ error # "aborted"

\* mutant: onerror does not clear the recognizer reference (as in the earlier
\* variant of the hook)
onerrorKeepsRef(r, error) ==
    /\ isListening' = FALSE
    /\ IF RetryScheduled(error)
       THEN /\ Len(retryTimers) < MaxTimers
            /\ retryTimers' = Append(retryTimers, RetryEntry(error))
       ELSE UNCHANGED retryTimers
    /\ UNCHANGED <<transcript, isSupported, recognitionRef, onSpeechEndRef,
                   finalTranscriptRef, isVoiceModeRef, shouldRestartRef>>

\* recognition.onerror (lines 137-151)
onerror(r, error) ==
    /\ isListening' = FALSE
    /\ recognitionRef' = null
    /\ IF RetryScheduled(error)
       THEN /\ Len(retryTimers) < MaxTimers
            /\ retryTimers' = Append(retryTimers, RetryEntry(error))
       ELSE UNCHANGED retryTimers
    /\ UNCHANGED <<transcript, isSupported, onSpeechEndRef, finalTranscriptRef,
                   isVoiceModeRef, shouldRestartRef>>

\* ------------------------------------------------------- the platform
\* the final results among the items of an event, in order
FinalItems(items) == SelectSeq(items, LAMBDA it : it.isFinal)

\* the concatenated text of a sequence of results
RECURSIVE Concat(_)
Concat(items) == IF items = <<>> THEN EmptyText
                 ELSE Head(items).transcript \o Concat(Tail(items))

\* the interim (non-final) text among the items of an event
InterimText(items) == Concat(SelectSeq(items, LAMBDA it : ~it.isFinal))

\* instance r, on which start() succeeded, delivers its start event
RecStart ==
    \E r \in RecIds :
        /\ rec[r].status = "starting"
        /\ ~rec[r].errored
        /\ rec' = [rec EXCEPT ![r].status = "started"]
        /\ onstart(r)
        /\ speechEndCall' = NotCalled
        /\ UNCHANGED <<mounted, hasSpeechRecognition, retryTimers, restartTimers,
                       speechEndTimers, sessionFinal, lastCall, speechEndCalled>>

\* a started instance r delivers a result event: event.results is `earlier`
\* (results of r that earlier events delivered as final) followed by the new
\* results `items`, and event.resultIndex is the position of the first new one
RecResultOf(r, earlier, items, maxLen) ==
    /\ rec[r].status = "started"
    /\ ~rec[r].errored
    /\ Len(finalTranscriptRef \o Concat(FinalItems(items))) <= maxLen
    /\ onresult(r, earlier \o items, Len(earlier))
    /\ rec' = [rec EXCEPT ![r].stopped =
                  @ \/ SpeechEnded(ResultLocals(earlier \o items, Len(earlier)))]
    /\ sessionFinal' = sessionFinal \o Concat(FinalItems(items))
    /\ speechEndCall' = NotCalled
    /\ UNCHANGED <<mounted, hasSpeechRecognition, retryTimers, restartTimers,
                   lastCall, speechEndCalled>>

RecResult ==
    \E r \in RecIds : \E earlier \in EarlierItems(r) : \E items \in NewItems(r) :
        RecResultOf(r, earlier, items, MaxFinals)

\* the error codes the platform may report for an instance
ErrorCodes(r) == IF rec[r].aborted THEN {"aborted", "network"} ELSE {"network"}

\* an instance delivers an error event with code `error`; only its end event follows
RecErrorOf(r, error) ==
    /\ rec[r].status \in {"starting", "started"}
    /\ error \in ErrorCodes(r)
    /\ ~rec[r].errored
    /\ rec' = [rec EXCEPT ![r] = [NoRec EXCEPT !.status = rec[r].status, !.errored = TRUE]]
    /\ onerror(r, error)
    /\ speechEndCall' = NotCalled
    /\ UNCHANGED <<mounted, hasSpeechRecognition, restartTimers, speechEndTimers,
                   sessionFinal, lastCall, speechEndCalled>>

RecError == \E r \in RecIds : \E error \in {"aborted", "network"} : RecErrorOf(r, error)

\* an instance delivers its end event, the last event of the instance
RecEnd ==
    \E r \in RecIds :
        /\ rec[r].status \in {"starting", "started"}
        /\ rec' = [rec EXCEPT ![r] = NoRec]
        /\ onend(r)
        /\ speechEndCalled' = [speechEndCalled EXCEPT ![r] = @ /\ HasTimer(r, speechEndTimers)]
        /\ speechEndCall' = NotCalled
        /\ UNCHANGED <<mounted, hasSpeechRecognition, retryTimers, restartTimers,
                       speechEndTimers, sessionFinal, lastCall>>

\* ------------------------------------------------------- specification
Next ==
    \/ CapabilityEffect
    \/ UserStartListening
    \/ stopListening
    \/ resetTranscript
    \/ restartListening
    \/ RestartTimer
    \/ RetryTimer
    \/ SpeechEndTimer
    \/ RecStart
    \/ RecResult
    \/ RecError
    \/ RecEnd

Spec == Init /\ [][Next]_vars

\* The same program where the environment keeps to one recognizer instance at a
\* time (startListening is called when the previous instance has ended) and
\* instances deliver more text.
RecResultSolo ==
    \E r \in RecIds : \E earlier \in EarlierItems(r) : \E items \in NewItems(r) :
        RecResultOf(r, earlier, items, MaxSoloFinals)

Instances == {r \in RecIds : rec[r].status # "none"}

NextSolo ==
    /\ \/ CapabilityEffect
       \/ UserStartListening
       \/ stopListening
       \/ resetTranscript
       \/ restartListening
       \/ RestartTimer
       \/ RetryTimer
       \/ SpeechEndTimer
       \/ RecStart
       \/ RecResultSolo
       \/ RecError
       \/ RecEnd
    /\ Cardinality(Instances') <= 1

SoloSpec == Init /\ [][NextSolo]_vars

\* ======================================================================
\* The earlier variant of the hook (src/unnamed/part_000)
\* ======================================================================
\* It has the state isListening, transcript, isSupported and the refs
\* recognitionRef, onSpeechEndRef and finalTranscriptRef; it has no voice-mode
\* or restart flag and sets no timers.  Its mount effect, onstart and
\* resetTranscript are those of the later variant.

\* the reference to an instance whose start() threw: it delivers no events
NeverStarted == MaxRec + 1

\* mutant: startListening does not look at the listening flag
BlockedEarlierIgnoresListening == ~isSupported \/ ~hasSpeechRecognition

\* the guards of startListening (lines 50 and 53)
BlockedEarlier == ~isSupported \/ isListening \/ ~hasSpeechRecognition

\* startListening(onSpeechEnd) (lines 49-128); throws tells whether
\* recognition.start() throws
startListeningEarlier(onSpeechEnd, throws) ==
    /\ lastCall' = "ui"
    /\ speechEndCall' = NotCalled
    /\ IF BlockedEarlier
       THEN UNCHANGED <<isListening, transcript, recognitionRef, onSpeechEndRef,
                        finalTranscriptRef, rec, sessionFinal, speechEndCalled>>
       ELSE /\ FreeIds # {}
            /\ rec' = IF throws THEN rec
                      ELSE [rec EXCEPT ![NewId] = [NoRec EXCEPT !.status = "starting"]]
            /\ recognitionRef' = IF throws THEN NeverStarted ELSE NewId
            /\ onSpeechEndRef' = onSpeechEnd
            /\ finalTranscriptRef' = EmptyText
            /\ isListening' = IF throws THEN FALSE ELSE isListening
            /\ sessionFinal' = EmptyText
            /\ speechEndCalled' = IF throws THEN speechEndCalled
                                  ELSE [speechEndCalled EXCEPT ![NewId] = FALSE]
            /\ UNCHANGED transcript
    /\ UNCHANGED <<isSupported, isVoiceModeRef, shouldRestartRef, mounted,
                   hasSpeechRecognition, retryTimers, restartTimers, speechEndTimers>>

UserStartListeningEarlier ==
    \E onSpeechEnd \in Callbacks \cup {null}, throws \in BOOLEAN :
        startListeningEarlier(onSpeechEnd, throws)

\* stopListening (lines 130-135)
stopListeningEarlier ==
    /\ rec' = IF recognitionRef \in RecIds /\ isListening
              THEN [rec EXCEPT ![recognitionRef].stopped = TRUE]
              ELSE rec
    /\ lastCall' = "stop"
    /\ speechEndCall' = NotCalled
    /\ UNCHANGED <<hookVars, mounted, hasSpeechRecognition, retryTimers, restartTimers,
                   speechEndTimers, sessionFinal, speechEndCalled>>

\* recognition.onresult (lines 74-104) of instance r: the callback is invoked
\* by the handler itself
onresultEarlier(r, results, resultIndex) ==
    LET locals == ResultLocals(results, resultIndex)
    IN  /\ finalTranscriptRef' = locals.ref
        /\ transcript' = locals.ref \o locals.interimTranscript
        /\ speechEndCall' = IF SpeechEnded(locals)
                            THEN [cb |-> onSpeechEndRef, text |-> trim(locals.ref)]
                            ELSE NotCalled
        /\ speechEndCalled' = [speechEndCalled EXCEPT ![r] = @ \/ SpeechEnded(locals)]
        /\ UNCHANGED <<isListening, isSupported, recognitionRef, onSpeechEndRef,
                       isVoiceModeRef, shouldRestartRef>>

\* recognition.onend (lines 106-115)
onendEarlier(r) ==
    /\ isListening' = FALSE
    /\ transcript' = IF onSpeechEndRef = null /\ finalTranscriptRef # EmptyText
                     THEN finalTranscriptRef
                     ELSE transcript
    /\ UNCHANGED <<isSupported, recognitionRef, onSpeechEndRef, finalTranscriptRef,
                   isVoiceModeRef, shouldRestartRef>>

\* recognition.onerror (lines 117-120)
onerrorEarlier(r) ==
    /\ isListening' = FALSE
    /\ UNCHANGED <<transcript, isSupported, recognitionRef, onSpeechEndRef,
                   finalTranscriptRef, isVoiceModeRef, shouldRestartRef>>

\* the platform, as for the later variant
RecResultEarlier ==
    \E r \in RecIds : \E earlier \in EarlierItems(r) : \E items \in NewItems(r) :
        /\ rec[r].status = "started"
        /\ ~rec[r].errored
        /\ Len(finalTranscriptRef \o Concat(FinalItems(items))) <= MaxFinals
        /\ onresultEarlier(r, earlier \o items, Len(earlier))
        /\ rec' = [rec EXCEPT ![r].stopped =
                      @ \/ SpeechEnded(ResultLocals(earlier \o items, Len(earlier)))]
        /\ sessionFinal' = sessionFinal \o Concat(FinalItems(items))
        /\ UNCHANGED <<mounted, hasSpeechRecognition, retryTimers, restartTimers,
                       speechEndTimers, lastCall>>

RecErrorEarlier ==
    \E r \in RecIds :
        /\ rec[r].status \in {"starting", "started"}
        /\ ~rec[r].errored
        /\ rec' = [rec EXCEPT ![r] = [NoRec EXCEPT !.status = rec[r].status,
                                                   !.errored = TRUE]]
        /\ onerrorEarlier(r)
        /\ speechEndCall' = NotCalled
        /\ UNCHANGED <<mounted, hasSpeechRecognition, retryTimers, restartTimers,
                       speechEndTimers, sessionFinal, lastCall, speechEndCalled>>

RecEndEarlier ==
    \E r \in RecIds :
        /\ rec[r].status \in {"starting", "started"}
        /\ rec' = [rec EXCEPT ![r] = NoRec]
        /\ onendEarlier(r)
        /\ speechEndCalled' = [speechEndCalled EXCEPT ![r] = FALSE]
        /\ speechEndCall' = NotCalled
        /\ UNCHANGED <<mounted, hasSpeechRecognition, retryTimers, restartTimers,
                       speechEndTimers, sessionFinal, lastCall>>

NextEarlier ==
    \/ CapabilityEffect
    \/ UserStartListeningEarlier
    \/ stopListeningEarlier
    \/ resetTranscript
    \/ RecStart
    \/ RecResultEarlier
    \/ RecErrorEarlier
    \/ RecEndEarlier

EarlierSpec == Init /\ [][NextEarlier]_vars

\* ======================================================================
\* Properties
\* ======================================================================

\* stopListening was called and startListening has not run since
stoppedSince == lastCall = "stop"

\* instances that have delivered their start event and not yet their end event
StartedInstances == {r \in RecIds : rec[r].status = "started"}

\* instances on which start() succeeded, with no error event delivered and
\* neither abort() nor stop() called
ActiveInstances ==
    {r \in RecIds : /\ rec[r].status \in {"starting", "started"}
                    /\ ~rec[r].errored /\ ~rec[r].aborted /\ ~rec[r].stopped}

\* the tokens of a text
Tokens(text) == {text[i] : i \in 1..Len(text)}

\* C1 (as stated): in every reachable state the listening flag is true if and
\* only if some recognizer instance has delivered its start event and not yet
\* its end event.
C1_ListeningIffStarted == isListening <=> (StartedInstances # {})

\* C1 (amended): the listening flag is true only if some recognizer instance has
\* delivered its start event and not yet its end event.
C1_ListeningOnlyIfStarted == isListening => (StartedInstances # {})

\* C1 witness: listening, with a started instance, while a second instance exists
C1_Witness ==
    /\ isListening
    /\ StartedInstances # {}
    /\ Cardinality(Instances) > 1

\* C2: after every result event handled by onresult, the transcript is the
\* final text accumulated so far in the session followed by the interim text
\* of that event.
C2_TranscriptIsFinalThenInterim ==
    [][\A r \in RecIds : \A earlier \in EarlierItems(r) : \A items \in NewItems(r) :
          RecResultOf(r, earlier, items, MaxSoloFinals)
              => transcript' = sessionFinal' \o InterimText(items)]_vars

\* C2 witness: a result event has left two final tokens followed by interim text
C2_Witness ==
    /\ StartedInstances # {}
    /\ Len(sessionFinal) >= 2
    /\ Len(transcript) > Len(sessionFinal)
    /\ SubSeq(transcript, 1, Len(sessionFinal)) = sessionFinal

\* C3 (as stated): once the instance of the current session has started,
\* neither the transcript nor the accumulated final text contains a word
\* recognized by another instance.
C3_NoTextOfAnotherSession ==
    \A r \in RecIds :
        (recognitionRef = r /\ rec[r].status = "started")
            => Tokens(transcript) \cup Tokens(finalTranscriptRef) \subseteq {Blank, r}

\* C4: the supported flag is what capability detection found once the mount
\* effect has run, and no step changes it afterwards.
C4_SupportedSetOnce ==
    /\ [](mounted => (isSupported <=> hasSpeechRecognition))
    /\ [][mounted => isSupported' = isSupported]_vars

\* C4 witness: a supported platform on which a session is listening
C4_Witness == mounted /\ isSupported /\ isListening /\ transcript # EmptyText

\* recognition.start() throws inside startListening (any caller)
StartThrows ==
    /\ isSupported /\ hasSpeechRecognition
    /\ \E onSpeechEnd \in Callbacks \cup {null}, caller \in {"ui", "retry", "restart"} :
           startListening(onSpeechEnd, TRUE, caller)

\* C5: right after an error event is handled, and right after start() throws,
\* the listening flag is false and the recognizer reference is cleared; the
\* listening flag becomes true only by a start event.
C5_FailureIsNotListening ==
    /\ [][(RecError \/ StartThrows) => (~isListening' /\ recognitionRef' = null)]_vars
    /\ [][(~isListening /\ isListening') => RecStart]_vars

\* C5 witness: an instance has delivered an error event while another is referenced
C5_Witness ==
    /\ \E r \in RecIds : rec[r].errored /\ rec[r].status = "started"
    /\ ~isListening
    /\ recognitionRef = null
    /\ transcript # EmptyText

\* a timer callback ran the body of startListening
TimerStarts ==
    /\ RetryTimer \/ RestartTimer
    /\ ~UNCHANGED <<hookVars, rec>>

\* C6: an error event sets the retry timer only in voice mode, with the restart
\* flag set and a code other than 'aborted'; while the session is in manual
\* mode no timer runs startListening.
C6_RetryOnlyInVoiceMode ==
    /\ [][Len(retryTimers') > Len(retryTimers)
             => /\ isVoiceModeRef /\ shouldRestartRef /\ onSpeechEndRef # null
                /\ \E r \in RecIds : RecErrorOf(r, "network")]_vars
    /\ [](\A i \in 1..Len(retryTimers) : retryTimers[i].error # "aborted")
    /\ [][TimerStarts => isVoiceModeRef]_vars
    /\ [](isVoiceModeRef <=> shouldRestartRef)

\* C6 witness: an instance has reported an error in voice mode and the retry timer is set
C6_Witness ==
    /\ retryTimers # <<>>
    /\ isVoiceModeRef
    /\ \E r \in RecIds : rec[r].errored

\* the retry timer fires and neither stopListening() nor a manual-mode
\* startListening() was called since it was set
UntoldRetry == RetryTimer /\ ~Head(retryTimers).told

\* C7 (as stated): when the retry timer of a voice-mode error fires, and neither
\* stopListening() nor a manual-mode startListening() was called since the error, a new
\* instance is constructed and start() called on it with the callback that was
\* stored when the error was reported.
C7_RetryWithSameCallback ==
    [][UntoldRetry
          => \E throws \in BOOLEAN : startListening(Head(retryTimers).cb, throws, "retry")]_vars

\* C7 (amended): a voice-mode error other than 'aborted' sets the retry timer;
\* when it fires, and neither stopListening() nor a manual-mode startListening()
\* was called since, a new instance is constructed and start() called on it with the
\* callback stored at that moment; and the timer does fire.
C7_RetryWithStoredCallback ==
    /\ [][\A r \in RecIds : (RecErrorOf(r, "network") /\ isVoiceModeRef)
             => retryTimers' = Append(retryTimers, RetryEntry("network"))]_vars
    /\ [][UntoldRetry
             => /\ onSpeechEndRef # null
                /\ \E throws \in BOOLEAN : startListening(onSpeechEndRef, throws, "retry")
                /\ onSpeechEndRef' = onSpeechEndRef
                /\ shouldRestartRef' /\ isVoiceModeRef']_vars
    /\ ([]<>(retryTimers = <<>>) \/ []<><<RetryTimer>>_vars)

\* C7 witness: the retry has constructed an instance, which has started, for the callback
C7_Witness ==
    /\ lastCall = "retry"
    /\ isVoiceModeRef /\ onSpeechEndRef # null
    /\ \E r \in RecIds : r = recognitionRef /\ rec[r].status = "started"

\* C8: stopListening clears the restart flag; only the UI's startListening with
\* a callback sets it again; and while it is clear no timer runs
\* startListening, restartListening sets no timer and no error sets one.
C8_NoRetryAfterStop ==
    /\ [][stopListening => ~shouldRestartRef']_vars
    /\ [](stoppedSince => ~shouldRestartRef)
    /\ [][(~shouldRestartRef /\ shouldRestartRef')
             => (UserStartListening /\ onSpeechEndRef' # null)]_vars
    /\ [][~shouldRestartRef
             => /\ ~TimerStarts
                /\ restartListening => UNCHANGED restartTimers
                /\ Len(retryTimers') <= Len(retryTimers)
                /\ Len(restartTimers') <= Len(restartTimers)]_vars

\* C8 witness: stopListening was called with both timers pending and an instance alive
C8_Witness ==
    /\ stoppedSince
    /\ retryTimers # <<>>
    /\ restartTimers # <<>>
    /\ Instances # {}

\* C9 (as stated): at most one instance is started or starting and neither
\* aborted nor stopped.
C9_AtMostOneActive == Cardinality(ActiveInstances) <= 1

\* C10 (as stated): once the listening flag is false after stopListening, it
\* stays false until startListening is called again.
C10_StaysStopped == [][(stoppedSince /\ ~isListening) => ~isListening']_vars

\* the step is a timer of instance r invoking the speech-end callback
InvokedFor(r) ==
    /\ SpeechEndTimer
    /\ Head(speechEndTimers).rec = r
    /\ speechEndCall' # NotCalled

\* the step is a result event that brings non-empty final text
BringsFinalText == Len(sessionFinal') > Len(sessionFinal)

\* the step sets a 100 ms callback timer, and the timer it sets
SetsSpeechEndTimer == Len(speechEndTimers') > Len(speechEndTimers)
NewSpeechEndTimer == speechEndTimers'[Len(speechEndTimers')]

\* C11 (as stated): when the 100 ms timer of a result event fires, the
\* speech-end callback is invoked with the trimmed final text of that event.
C11_CallbackInvoked ==
    [][SpeechEndTimer
          => /\ speechEndCall'.cb # null
             /\ speechEndCall'.text = Head(speechEndTimers).fullText]_vars

\* C11 (amended): a result event in voice mode that brings non-empty final text
\* while the accumulated final text is non-blank after trimming requests stop on
\* its recognizer and sets the 100 ms timer with the trimmed accumulated text;
\* a result event without final text or with blank accumulated text does
\* neither; the timer fires, and invokes the callback stored at that moment, if
\* any, with exactly that text; nothing else invokes the callback.
C11_VoiceModeSpeechEnd ==
    /\ [][(BringsFinalText /\ isVoiceModeRef /\ trim(sessionFinal') # EmptyText)
             => SetsSpeechEndTimer]_vars
    /\ [][SetsSpeechEndTimer
             => /\ BringsFinalText
                /\ speechEndTimers' = Append(speechEndTimers, NewSpeechEndTimer)
                /\ NewSpeechEndTimer.fullText = trim(sessionFinal')
                /\ NewSpeechEndTimer.fullText # EmptyText
                /\ rec'[NewSpeechEndTimer.rec].stopped
                /\ \E earlier \in EarlierItems(NewSpeechEndTimer.rec) :
                   \E items \in NewItems(NewSpeechEndTimer.rec) :
                       RecResultOf(NewSpeechEndTimer.rec, earlier, items, MaxFinals)]_vars
    /\ [][\A r \in RecIds :
             (rec'[r].stopped /\ ~rec[r].stopped)
                 => \/ stopListening
                    \/ SetsSpeechEndTimer /\ NewSpeechEndTimer.rec = r]_vars
    /\ [][SpeechEndTimer
             => speechEndCall' = IF onSpeechEndRef # null
                                 THEN [cb |-> onSpeechEndRef,
                                       text |-> Head(speechEndTimers).fullText]
                                 ELSE NotCalled]_vars
    /\ [][speechEndCall' # NotCalled => SpeechEndTimer]_vars
    /\ ([]<>(speechEndTimers = <<>>) \/ []<><<SpeechEndTimer>>_vars)

\* C11 witness: the callback has just been invoked with the text of an instance
\* on which stop was requested
C11_Witness ==
    /\ speechEndCall.cb # null
    /\ speechEndCall.text # EmptyText
    /\ \E r \in RecIds : rec[r].stopped /\ speechEndCalled[r] /\ isVoiceModeRef

\* C13: when the supported flag is false or the platform has no recognizer
\* constructor, startListening creates no recognizer, aborts none, and leaves
\* the listening flag, the transcript, the accumulated final text, the
\* voice-mode flag, the restart flag, the stored callback and the recognizer
\* reference unchanged.
C13_UnsupportedStartIsNoOp ==
    [][((~isSupported \/ ~hasSpeechRecognition) /\ UserStartListening)
          => UNCHANGED <<isListening, transcript, finalTranscriptRef, isVoiceModeRef,
                         shouldRestartRef, onSpeechEndRef, recognitionRef, rec>>]_vars

\* C13 witness: startListening was called where the supported flag is false
C13_Witness ==
    /\ lastCall = "ui"
    /\ ~isSupported
    /\ Instances = {}

\* the text of the interim results of one result event
InterimTexts == {EmptyText} \cup {<<r>> : r \in RecIds}

\* C14: resetTranscript empties the transcript and the accumulated final text
\* and leaves the listening flag, the recognizer reference, every recognizer,
\* the voice-mode and restart flags, the stored callback and the timers as they
\* are; the accumulated final text is always the text finalized since the reset
\* (or the start of the session), and whenever a step gives the transcript a
\* new non-empty value, it is that text followed by the interim text of one
\* event.
C14_ResetClearsTextOnly ==
    /\ [][resetTranscript
             => /\ transcript' = EmptyText
                /\ finalTranscriptRef' = EmptyText
                /\ UNCHANGED <<isListening, isSupported, recognitionRef, rec,
                               isVoiceModeRef, shouldRestartRef, onSpeechEndRef,
                               retryTimers, restartTimers, speechEndTimers>>]_vars
    /\ [](finalTranscriptRef = sessionFinal)
    /\ [][(transcript' # transcript /\ transcript' # EmptyText)
             => \E interim \in InterimTexts : transcript' = sessionFinal' \o interim]_vars

\* C14 witness: the referenced instance had delivered final text (its callback
\* timer is pending), the text was reset, and a result event has arrived since
C14_Witness ==
    \E r \in RecIds :
        /\ recognitionRef = r
        /\ rec[r].status = "started"
        /\ HasTimer(r, speechEndTimers)
        /\ finalTranscriptRef = EmptyText
        /\ transcript # EmptyText

\* C15 (as stated): in the earlier variant, startListening called while the
\* listening flag is true changes neither the recognizer reference, the stored
\* callback, the accumulated final text, the transcript nor any recognizer, and
\* startListening never replaces the reference to an instance that has started
\* (and has neither failed nor ended).
C15_StartedNeverReplaced ==
    /\ [][(isListening /\ UserStartListeningEarlier)
             => UNCHANGED <<recognitionRef, onSpeechEndRef, finalTranscriptRef,
                            transcript, rec>>]_vars
    /\ [][UserStartListeningEarlier
             => \A r \in RecIds :
                    (recognitionRef = r /\ rec[r].status = "started" /\ ~rec[r].errored)
                        => recognitionRef' = r]_vars

\* C15 (amended): in the earlier variant, startListening called while the
\* listening flag is true changes neither the recognizer reference, the stored
\* callback, the accumulated final text, the transcript, the listening flag nor
\* any recognizer: while the flag is true no instance is constructed and the
\* referenced one is not replaced.
C15_StartWhileListeningIsNoOp ==
    [][(isListening /\ UserStartListeningEarlier)
          => UNCHANGED <<recognitionRef, onSpeechEndRef, finalTranscriptRef,
                         transcript, isListening, rec>>]_vars

\* C15 witness: in manual mode stopListening and then startListening were
\* called on a listening session, whose instance is still the referenced one
C15_Witness ==
    \E r \in RecIds :
        /\ lastCall = "ui"
        /\ isListening
        /\ onSpeechEndRef = null
        /\ Instances = {r}
        /\ recognitionRef = r
        /\ rec[r].status = "started" /\ rec[r].stopped /\ ~rec[r].errored

\* C16 (as stated): whenever the listening flag is true, the recognizer
\* reference is non-null and refers to an instance that has delivered its start
\* event and not yet its end event.
C16_ListeningRefersToStarted ==
    isListening => (recognitionRef \in RecIds /\ rec[recognitionRef].status = "started")

\* C17 (as stated): once stopListening has been called, no step invokes the
\* speech-end callback until startListening is called again.
C17_NoCallbackAfterStop ==
    [][stoppedSince => speechEndCall' = NotCalled]_vars

\* C18 (as stated): in voice mode the speech-end callback is invoked at most
\* once by the timers of one recognizer instance.
C18_CallbackOncePerInstance ==
    [][\A r \in RecIds : (isVoiceModeRef /\ InvokedFor(r)) => ~speechEndCalled[r]]_vars

\* C12: when an end event is handled with the voice-mode flag clear and the
\* accumulated final text non-empty, the transcript becomes exactly that text;
\* with the flag set or the text empty, the transcript is unchanged; in both
\* cases the listening flag becomes false.
C12_EndKeepsFinalText ==
    [][RecEnd
          => /\ transcript' = IF ~isVoiceModeRef /\ sessionFinal # EmptyText
                              THEN sessionFinal
                              ELSE transcript
             /\ ~isListening']_vars

\* C12 witness: every instance has ended and, in manual mode, the transcript is
\* the final text of the session
C12_Witness ==
    /\ Instances = {}
    /\ ~isVoiceModeRef /\ lastCall = "ui"
    /\ sessionFinal # EmptyText
    /\ transcript = sessionFinal
    /\ ~isListening

\* Fairness: timers fire, and the platform delivers the end event of every instance.
FairSpec == Spec /\ SF_vars(RetryTimer) /\ WF_vars(SpeechEndTimer) /\ WF_vars(RecEnd)

====
